---- MODULE Spec2Model ----
(***************************************************************************)
(* Model of bank_statement_processor.py: the monthly pipeline              *)
(* (run_monthly_job), the extraction of one record per fetched document    *)
(* (extract_data_from_pdf), the merge into the workbook (write_to_excel),  *)
(* the report step (create_monthly_report) and the scheduler               *)
(* (schedule_and_run_job).                                                 *)
(*                                                                         *)
(* A statement text is represented by what the bank's pattern rules find   *)
(* in it (period dates, amounts); strings that the code orders or formats  *)
(* (dates, banks, month names) are kept as strings, with their             *)
(* lexicographic order given by DateOrder and BankOrder.                   *)
(***************************************************************************)
EXTENDS Integers, Sequences, FiniteSets, TLC

(* Python's None; pandas reads and writes it as NaN / an empty cell. *)
NULL == "None"

(* ---------------------------- bounds ---------------------------------- *)
(* Longest list of statements one fetch returns. *)
MaxBatch == 2
(* Number of pipeline runs started in one behaviour. *)
MaxRuns == 3

(* ---------------------------- inputs ---------------------------------- *)
NoPeriod == <<>>

(* A closing balance: none found, or the amount parse_amount returns. *)
NoAmount == <<>>
Amount(x) == <<x>>

MMDDYYYY(mm, dd, yyyy) == [mm |-> mm, dd |-> dd, yyyy |-> yyyy]

(* What the pattern rules of the document's bank find in the text: the two
   dates of the statement period (or nothing), and the three amounts as
   parse_amount returns them (closing balance NoAmount when no rule matches). *)
Text(period, balance, credits, debits) ==
    [period |-> period, balance |-> balance, credits |-> credits, debits |-> debits]

MarchPeriod == <<MMDDYYYY("03", "01", "2025"), MMDDYYYY("03", "31", "2025")>>
AprilPeriod == <<MMDDYYYY("04", "01", "2025"), MMDDYYYY("04", "30", "2025")>>

(* date_match of line 202 on the basename: the date-shaped substring of the
   filename, NULL when there is none. *)
FilenameDate(filename) ==
    IF filename = "citi_20250415.pdf" THEN "20250415" ELSE NULL

(* One entry of the list fetch_emails returns (lines 88-93), with the
   content of the downloaded file: readable is FALSE when opening or
   reading the PDF raises. *)
Statement(bank, filename, readable, text) ==
    [bank |-> bank, filename |-> filename, readable |-> readable, text |-> text]

Inbox ==
    { Statement("chase", "chase.pdf", TRUE, Text(MarchPeriod, Amount(1200), 100, 20)),
      Statement("citi", "citi.pdf", TRUE, Text(AprilPeriod, Amount(700), 50, 10)),
      Statement("citi", "citi.pdf", FALSE, Text(AprilPeriod, Amount(700), 50, 10)),
      Statement("citi", "citi_20250415.pdf", TRUE, Text(NoPeriod, NoAmount, 0, 0)),
      Statement("chase", "chase.pdf", TRUE, Text(NoPeriod, Amount(300), 100, 20)) }

(* All lists of at most n statements. *)
RECURSIVE Batches(_)
Batches(n) ==
    IF n = 0 THEN { <<>> }
    ELSE LET shorter == Batches(n - 1)
         IN  shorter \cup { Append(b, s) : b \in { x \in shorter : Len(x) = n - 1 }, s \in Inbox }

(* datetime.datetime.now().strftime('%Y-%m') over the months of the model. *)
Clock == <<"2025-03", "2025-04">>

(* ------------------------ strings and their order ---------------------- *)
(* The date strings of the model in lexicographic (code point) order, the
   order sort_values gives an object column of strings. *)
DateOrder == <<"2025-03", "2025-04", "20250415">>
BankOrder == <<"chase", "citi">>

IndexOf(seq, x) == CHOOSE i \in 1..Len(seq) : seq[i] = x

(* Position of a date in the sort; NaN sorts last (na_position='last'). *)
DateRank(d) == IF d = NULL THEN Len(DateOrder) + 1 ELSE IndexOf(DateOrder, d)
BankRank(b) == IndexOf(BankOrder, b)

(* A date that is not of the "YYYY-MM" shape (it came from a filename). *)
FilenameShaped(d) == d = "20250415"

(* pd.to_datetime(date).dt.strftime('%B %Y'), line 428. *)
MonthName(d) ==
    CASE d = "2025-03" -> "March 2025"
      [] d = "2025-04" -> "April 2025"
      [] d = "20250415" -> "April 2025"
      [] OTHER -> NULL

(* 'Report_' + now.strftime('%b_%Y'), lines 502-503. *)
SheetName(ym) ==
    CASE ym = "2025-03" -> "Report_Mar_2025"
      [] ym = "2025-04" -> "Report_Apr_2025"

(* ----------------------------- strings --------------------------------- *)
(* Python's `sub in s`. *)
Contains(s, sub) ==
    \E i \in 1..(Len(s) - Len(sub) + 1) : SubSeq(s, i, i + Len(sub) - 1) = sub

UpperCase == "ABCDEFGHIJKLMNOPQRSTUVWXYZ"
LowerCase == "abcdefghijklmnopqrstuvwxyz"

LowerChar(c) ==
    IF \E i \in 1..Len(UpperCase) : SubSeq(UpperCase, i, i) = c
    THEN LET i == CHOOSE i \in 1..Len(UpperCase) : SubSeq(UpperCase, i, i) = c
         IN  SubSeq(LowerCase, i, i)
    ELSE c

(* str.lower(). *)
RECURSIVE lower(_)
lower(s) ==
    IF Len(s) = 0 THEN ""
    ELSE LowerChar(SubSeq(s, 1, 1)) \o lower(SubSeq(s, 2, Len(s)))

(* --------------------------- identify_bank ----------------------------- *)
Bank(name, identifiers) == [bank |-> name, identifiers |-> identifiers]

(* The dictionary with citi registered before chase. *)
banks_citi_first ==
    << Bank("citi", <<"citi", "citibank", "@citi.com">>),
       Bank("chase", <<"chase", "@chase.com">>),
       Bank("bank of america", <<"bank of america", "bankofamerica", "@bofa.com">>),
       Bank("wells fargo", <<"wells fargo", "wellsfargo", "@wellsfargo.com">>),
       Bank("capital one", <<"capital one", "capitalone", "@capitalone.com">>) >>

(* Lines 124-131: the dictionary of banks, in insertion order. *)
banks ==
    << Bank("chase", <<"chase", "@chase.com">>),
       Bank("bank of america", <<"bank of america", "bankofamerica", "@bofa.com">>),
       Bank("wells fargo", <<"wells fargo", "wellsfargo", "@wellsfargo.com">>),
       Bank("citi", <<"citi", "citibank", "@citi.com">>),
       Bank("capital one", <<"capital one", "capitalone", "@capitalone.com">>) >>

(* Lines 133-136: the loops over the banks, from the i-th, and over the
   identifiers of each; NULL when the loops end without a return. *)
RECURSIVE first_bank(_, _, _)
first_bank(subject, sender, i) ==
    IF i > Len(banks) THEN NULL
    ELSE IF \E n \in 1..Len(banks[i].identifiers) :
               \/ Contains(subject, banks[i].identifiers[n])
               \/ Contains(sender, banks[i].identifiers[n])
         THEN banks[i].bank
         ELSE first_bank(subject, sender, i + 1)

(* identify_bank(subject, sender), lines 118-142. *)
identify_bank(subject, sender) ==
    LET known == first_bank(lower(subject), lower(sender), 1)
    IN  IF known # NULL THEN known
        ELSE IF Contains(lower(subject), "statement") THEN "unknown bank"
        ELSE NULL

(* The subjects and senders of the messages identify_bank is called with
   (lines 61-68). *)
Subjects ==
    { "Your Chase Statement", "Bank of America eStatement",
      "WELLS FARGO statement is ready", "Citibank statement",
      "Capital One bill", "Your monthly statement", "STATEMENT available",
      "Purchase receipt", "Bank notice", "" }

Senders ==
    { "alerts@chase.com", "no-reply@BofA.com", "ealerts@wellsfargo.com",
      "info@citi.com", "Capital One <no-reply@capitalone.com>",
      "billing@utility.example", "Citizens Credit Union <mail@ccu.example>" }

(* The matched text of one date group, "MM/DD/YYYY". *)
DateText(d) == d.mm \o "/" \o d.dd \o "/" \o d.yyyy

(* ------------------------- period patterns ----------------------------- *)
Digit == {"0", "1", "2", "3", "4", "5", "6", "7", "8", "9"}

(* The characters \s matches. *)
Whitespace == {" ", "\t", "\n"}

(* The character of s at position i, "" outside the string. *)
At(s, i) == IF i >= 1 /\ i <= Len(s) THEN SubSeq(s, i, i) ELSE ""

StartsWith(s, i, literal) ==
    i >= 1 /\ i + Len(literal) - 1 <= Len(s) /\ SubSeq(s, i, i + Len(literal) - 1) = literal

(* \s* from position i: the position of the first character that is not
   whitespace.  What follows \s* in the patterns never starts with
   whitespace, so the greedy match is the only one. *)
RECURSIVE skip_spaces(_, _)
skip_spaces(s, i) == IF At(s, i) \in Whitespace THEN skip_spaces(s, i + 1) ELSE i

(* \d{2}/\d{2}/\d{4} at position i. *)
date_at(s, i) ==
    /\ i >= 1
    /\ i + 9 <= Len(s)
    /\ \A k \in {0, 1, 3, 4, 6, 7, 8, 9} : At(s, i + k) \in Digit
    /\ At(s, i + 2) = "/"
    /\ At(s, i + 5) = "/"

(* group(n).split('/') of the date matched at position i. *)
split_date(s, i) ==
    MMDDYYYY(SubSeq(s, i, i + 1), SubSeq(s, i + 3, i + 4), SubSeq(s, i + 6, i + 9))

(* A period pattern: the words of its label, each with its first letter in
   either case ([Ss]tatement [Pp]eriod), and the alternatives of the part
   between the two dates in the order the pattern tries them; no
   alternatives for a pattern with one date. *)
Pattern(words, joiner) == [words |-> words, joiner |-> joiner]

RECURSIVE Join(_)
Join(words) ==
    IF words = <<>> THEN ""
    ELSE IF Len(words) = 1 THEN words[1]
    ELSE words[1] \o " " \o Join(Tail(words))

(* The positions of the label where the pattern has a class [Xx]. *)
Capitals(words) ==
    { Len(Join(SubSeq(words, 1, n - 1))) + (IF n > 1 THEN 2 ELSE 1) : n \in 1..Len(words) }

label_at(s, i, words) ==
    LET label == Join(words)
    IN  /\ i + Len(label) - 1 <= Len(s)
        /\ \A k \in 1..Len(label) :
              \/ At(s, i + k - 1) = SubSeq(label, k, k)
              \/ k \in Capitals(words) /\ LowerChar(At(s, i + k - 1)) = SubSeq(label, k, k)
                                       /\ At(s, i + k - 1) # SubSeq(label, k, k)

(* The character class [to|-] of lines 224, 251 and 277: one of the
   characters t, o, | and -. *)
to_or_dash_class == <<"t", "o", "|", "-">>
(* The group (?:through|to|-) of lines 303, 364 and 366. *)
through_to_dash == <<"through", "to", "-">>
(* The literal - of line 328. *)
dash == <<"-">>

(* The groups of the match of the pattern that starts at position i of s,
   <<>> when there is none:
   label :? \s* (date) [ \s* joiner \s* (date) ]. *)
match_at(pattern, s, i) ==
    LET a == i + Len(Join(pattern.words))
        b == IF At(s, a) = ":" THEN a + 1 ELSE a
        c == skip_spaces(s, b)
        e == skip_spaces(s, c + 10)
        second(n) == skip_spaces(s, e + Len(pattern.joiner[n]))
        alternatives == { n \in 1..Len(pattern.joiner) :
                            StartsWith(s, e, pattern.joiner[n]) /\ date_at(s, second(n)) }
    IN  IF ~label_at(s, i, pattern.words) \/ ~date_at(s, c) THEN <<>>
        ELSE IF pattern.joiner = <<>> THEN <<split_date(s, c)>>
        ELSE IF alternatives = {} THEN <<>>
        ELSE LET n == CHOOSE n \in alternatives : \A m \in alternatives : n <= m
             IN  <<split_date(s, c), split_date(s, second(n))>>

(* re.search(pattern, text): the groups of the leftmost match. *)
search(pattern, s) ==
    LET starts == { i \in 1..Len(s) : match_at(pattern, s, i) # <<>> }
    IN  IF starts = {} THEN <<>>
        ELSE match_at(pattern, s, CHOOSE i \in starts : \A j \in starts : i <= j)

(* Lines 184-196 with lines 224, 251, 277, 303, 328 and 363-367: the period
   patterns of the rule set bank_name is dispatched to. *)
period_patterns(bank_name) ==
    IF Contains(lower(bank_name), "chase")
    THEN << Pattern(<<"statement", "period">>, to_or_dash_class) >>
    ELSE IF Contains(lower(bank_name), "bank of america")
    THEN << Pattern(<<"statement", "period">>, to_or_dash_class) >>
    ELSE IF Contains(lower(bank_name), "wells fargo")
    THEN << Pattern(<<"statement", "period">>, to_or_dash_class) >>
    ELSE IF Contains(lower(bank_name), "citi")
    THEN << Pattern(<<"statement", "period">>, through_to_dash) >>
    ELSE IF Contains(lower(bank_name), "capital one")
    THEN << Pattern(<<"statement", "period">>, dash) >>
    ELSE << Pattern(<<"statement", "period">>, through_to_dash),
            Pattern(<<"statement", "date">>, <<>>),
            Pattern(<<"period">>, through_to_dash) >>

(* Lines 369-380 (one pattern in the bank rule sets): the groups of the
   first pattern, from the n-th, that matches. *)
RECURSIVE period_match(_, _, _)
period_match(patterns, s, n) ==
    IF n > Len(patterns) THEN NoPeriod
    ELSE IF search(patterns[n], s) # <<>> THEN search(patterns[n], s)
    ELSE period_match(patterns, s, n + 1)

(* The text of a statement that has one line with a period label and one
   or two dates, and no line with an amount: what the text extracted from
   the pages holds, and what the rule set of bank_name finds in it. *)
PeriodLine(label, dates, joiner) ==
    [label |-> label, dates |-> dates, joiner |-> joiner]

Content(line) ==
    "Account 1234\n" \o line.label \o ": " \o DateText(line.dates[1])
        \o (IF Len(line.dates) = 2
            THEN " " \o line.joiner \o " " \o DateText(line.dates[2])
            ELSE "")
        \o "\nPage 1 of 2"

found_in(bank_name, line) ==
    Text(period_match(period_patterns(bank_name), Content(line), 1), NoAmount, 0, 0)

(* The bank names extract_data_from_pdf is called with (line 595), and the
   period lines of the statements. *)
BankNames ==
    {"chase", "bank of america", "wells fargo", "citi", "capital one", "unknown bank"}

PeriodLabels == {"Statement Period", "Statement Date", "Period"}

PeriodLines ==
    { PeriodLine(label, AprilPeriod, joiner) :
         label \in PeriodLabels, joiner \in {"to", "through", "-"} }
    \cup { PeriodLine(label, <<AprilPeriod[2]>>, "") : label \in PeriodLabels }

(* --------------------------- extraction -------------------------------- *)

(* The rule set of a bank (extract_chase_data ... extract_generic_bank_data)
   applied to the text: each field is set only when its rule matches; the
   date is the end date of the period as "YYYY-MM". *)
extract_bank_data(text, data) ==
    LET with_balance ==
            IF text.balance # NoAmount
            THEN [data EXCEPT !.closing_balance = text.balance]
            ELSE data
        with_period ==
            IF Len(text.period) = 2
            THEN [with_balance EXCEPT
                    !.statement_period = DateText(text.period[1]) \o " - " \o DateText(text.period[2]),
                    !.date = text.period[2].yyyy \o "-" \o text.period[2].mm]
            ELSE IF Len(text.period) = 1
            THEN [with_balance EXCEPT
                    !.statement_period = DateText(text.period[1]),
                    !.date = text.period[1].yyyy \o "-" \o text.period[1].mm]
            ELSE with_balance
    IN  [with_period EXCEPT !.total_credits = text.credits, !.total_debits = text.debits]

(* Lines 198-209: the date when the rule set found none. *)
fallback_date(pdf_path, current_month) ==
    IF FilenameDate(pdf_path) # NULL THEN FilenameDate(pdf_path) ELSE current_month

(* extract_data_from_pdf(pdf_path, bank_name), lines 159-214.  An exception
   while the file is opened or read is caught at line 211 and the record of
   line 166 is returned as it is. *)
extract_data_from_pdf(statement, current_month) ==
    LET data == [bank |-> statement.bank, date |-> NULL, closing_balance |-> NoAmount,
                 total_credits |-> 0, total_debits |-> 0, statement_period |-> NULL]
        found == extract_bank_data(statement.text, data)
    IN  IF ~statement.readable THEN data
        ELSE IF found.date = NULL
             THEN [found EXCEPT !.date = fallback_date(statement.filename, current_month)]
             ELSE found

(* ------------------------ data frame operations ------------------------ *)
(* Lines 422-428: the row of the data frame made from one record. *)
to_row(data) ==
    [bank |-> data.bank, date |-> data.date, closing_balance |-> data.closing_balance,
     total_credits |-> data.total_credits, total_debits |-> data.total_debits,
     statement_period |-> data.statement_period,
     net_cash_flow |-> data.total_credits - data.total_debits,
     month |-> MonthName(data.date)]

DataFrame(data_list) == [i \in 1..Len(data_list) |-> to_row(data_list[i])]

(* The dedup key, subset=['bank', 'date']; NaN dates compare equal. *)
Key(row) == <<row.bank, row.date>>
KeysOf(df) == { Key(df[i]) : i \in 1..Len(df) }

(* Order of sort_values(['date', 'bank']). *)
RowLess(r1, r2) ==
    \/ DateRank(r1.date) < DateRank(r2.date)
    \/ DateRank(r1.date) = DateRank(r2.date) /\ BankRank(r1.bank) < BankRank(r2.bank)

(* Insert a row behind every row that is not greater: the sort is stable. *)
RECURSIVE InsertRow(_, _)
InsertRow(sorted, row) ==
    IF sorted = <<>> THEN <<row>>
    ELSE IF RowLess(row, sorted[Len(sorted)])
         THEN Append(InsertRow(SubSeq(sorted, 1, Len(sorted) - 1), row), sorted[Len(sorted)])
         ELSE Append(sorted, row)

(* The order of sort_values(['date']): the bank is not a sort key. *)
RECURSIVE InsertRowByDate(_, _)
InsertRowByDate(sorted, row) ==
    IF sorted = <<>> THEN <<row>>
    ELSE IF DateRank(row.date) < DateRank(sorted[Len(sorted)].date)
         THEN Append(InsertRowByDate(SubSeq(sorted, 1, Len(sorted) - 1), row), sorted[Len(sorted)])
         ELSE Append(sorted, row)

RECURSIVE sort_values_by_date(_)
sort_values_by_date(df) ==
    IF df = <<>> THEN <<>>
    ELSE InsertRowByDate(sort_values_by_date(SubSeq(df, 1, Len(df) - 1)), df[Len(df)])

RECURSIVE sort_values(_)
sort_values(df) ==
    IF df = <<>> THEN <<>>
    ELSE InsertRow(sort_values(SubSeq(df, 1, Len(df) - 1)), df[Len(df)])

concat_incoming_only(existing_df, df) == df

(* pd.concat([existing_df, df]), line 443. *)
concat(existing_df, df) == existing_df \o df

(* The rows of df at the positions of keep, in order. *)
RECURSIVE TakeRows(_, _, _)
TakeRows(df, keep, i) ==
    IF i > Len(df) THEN <<>>
    ELSE IF i \in keep THEN <<df[i]>> \o TakeRows(df, keep, i + 1)
         ELSE TakeRows(df, keep, i + 1)

(* drop_duplicates with keep='first'. *)
drop_duplicates_keep_first(df) ==
    TakeRows(df, { i \in 1..Len(df) : \A j \in 1..(i - 1) : Key(df[j]) # Key(df[i]) }, 1)

(* drop_duplicates(subset=['bank', 'date'], keep='last'), line 446. *)
drop_duplicates(df) ==
    TakeRows(df, { i \in 1..Len(df) : \A j \in (i + 1)..Len(df) : Key(df[j]) # Key(df[i]) }, 1)

(* Lines 443-449: what the else branch of write_to_excel writes back. *)
combine(existing_df, df) == sort_values(drop_duplicates(concat(existing_df, df)))

(* write_to_excel, lines 422-452: the rows the file holds after the call,
   from the file before the call and the batch. *)
written_rows(file, data_list) ==
    IF ~file.exists
    THEN sort_values(DataFrame(data_list))
    ELSE combine(file.book.statements, sort_values(DataFrame(data_list)))

(* A writer that keeps the sheets the file already has. *)
to_excel_sheets_kept(file) == file.book.reports

(* Lines 435-436 and 452: to_excel writes a new workbook whose only sheet
   is 'Bank Statements'; these are the report sheets it carries over. *)
to_excel_sheets(file) == {}

(* pd.to_datetime (line 428) raises on a date string it cannot parse, and
   whether it can parse a filename-shaped date depends on its shape and on
   the other dates of the column: with such a date both outcomes occur. *)
to_datetime_may_raise(data_list) ==
    \E i \in 1..Len(data_list) : FilenameShaped(data_list[i].date)

(* ------------------------------ state ---------------------------------- *)
VARIABLES
    sched,           \* position in schedule_and_run_job
    pc,              \* position in run_monthly_job ("idle": not running)
    runs,            \* number of runs started so far
    now,             \* index in Clock of the current year-month
    excel_file,      \* bank_reports.xlsx as a reader of the file finds it
    statements,      \* run_monthly_job: the list fetch_emails returned
    extracted_data,  \* run_monthly_job: the records extracted from it
    file_existed,    \* write_to_excel: os.path.exists(self.excel_file)
    existing_df,     \* write_to_excel: the rows read from the file
    workbook,        \* the workbook in memory that is being saved
    prior,           \* history: excel_file when the run was started
    email,           \* a call of identify_bank: its arguments and result
    pdf              \* a call of extract_data_from_pdf: arguments and result

vars == <<sched, pc, runs, now, excel_file, statements, extracted_data,
          file_existed, existing_df, workbook, prior, email, pdf>>

calls == <<email, pdf>>

pipeline == <<sched, pc, runs, now, excel_file, statements, extracted_data,
              file_existed, existing_df, workbook, prior>>

locals == <<statements, extracted_data, file_existed, existing_df, workbook>>

current_month == Clock[now]

(* A workbook: the rows of the 'Bank Statements' sheet and the report
   sheets. *)
Workbook(rows, reports) == [statements |-> rows, reports |-> reports]

NoWorkbook == Workbook(<<>>, {})

(* The file on disk: absent; open for writing (created or truncated, the
   content not yet written); or closed, holding a workbook. *)
NoFile == [exists |-> FALSE, closed |-> TRUE, book |-> NoWorkbook]
OpenedForWriting == [exists |-> TRUE, closed |-> FALSE, book |-> NoWorkbook]
Saved(book) == [exists |-> TRUE, closed |-> TRUE, book |-> book]

(* No call of the function is being looked at. *)
NoCall == [returned |-> FALSE]

NotStarted ==
    /\ sched = "start"
    /\ pc = "idle"
    /\ runs = 0
    /\ now = 1
    /\ excel_file = NoFile
    /\ statements = <<>>
    /\ extracted_data = <<>>
    /\ file_existed = FALSE
    /\ existing_df = <<>>
    /\ workbook = NoWorkbook
    /\ prior = NoFile

Init ==
    /\ NotStarted
    /\ email = NoCall
    /\ pdf = NoCall

ResetLocals ==
    /\ statements' = <<>>
    /\ extracted_data' = <<>>
    /\ file_existed' = FALSE
    /\ existing_df' = <<>>
    /\ workbook' = NoWorkbook

(* ---------------------------- scheduler -------------------------------- *)
(* A scheduler that starts the job without waiting for the last call. *)
job_running_ignored(position) == FALSE

(* A call of run_monthly_job returns before its caller goes on (lines 616
   and 627): while a run is between its first and last line the scheduler
   thread is inside it. *)
job_running(position) == position # "idle"

(* Lines 613-616: the script is started and calls the job at once. *)
Launch ==
    /\ sched = "start"
    /\ ~job_running(pc)
    /\ runs < MaxRuns
    /\ sched' = "immediate"
    /\ pc' = "fetch"
    /\ runs' = runs + 1
    /\ prior' = excel_file
    /\ UNCHANGED <<calls, now, excel_file, locals>>

(* Line 619: the job is registered.  Whether the schedule library accepts
   the monthly unit depends on the library: the call either succeeds or
   raises, and an exception ends the process. *)
Register ==
    /\ sched = "register"
    /\ sched' \in {"loop", "dead"}
    /\ UNCHANGED <<calls, pc, runs, now, excel_file, locals, prior>>

(* Lines 626-628: run_pending calls the job when it is due. *)
RunPending ==
    /\ sched = "loop"
    /\ ~job_running(pc)
    /\ runs < MaxRuns
    /\ pc' = "fetch"
    /\ runs' = runs + 1
    /\ prior' = excel_file
    /\ UNCHANGED <<calls, sched, now, excel_file, locals>>

(* Lines 629-630: Ctrl+C while the loop sleeps ends the process. *)
KeyboardInterrupt ==
    /\ sched = "loop"
    /\ ~job_running(pc)
    /\ sched' = "dead"
    /\ UNCHANGED <<calls, pc, runs, now, excel_file, locals, prior>>

(* Line 633: the script is started again after the process has ended. *)
Restart ==
    /\ sched = "dead"
    /\ runs < MaxRuns
    /\ sched' = "start"
    /\ UNCHANGED <<calls, pc, runs, now, excel_file, locals, prior>>

(* The calendar month changes. *)
Tick ==
    /\ now < Len(Clock)
    /\ now' = now + 1
    /\ UNCHANGED <<calls, sched, pc, runs, excel_file, locals, prior>>

(* ------------------------- run_monthly_job ----------------------------- *)
no_statements_never(list) == FALSE

(* Line 588: `if not statements`. *)
no_statements(list) == list = <<>>

(* Lines 586-590: fetch, and return when there are no statements. *)
Fetch ==
    /\ pc = "fetch"
    /\ \E batch \in Batches(MaxBatch) :
          /\ statements' = batch
          /\ pc' = IF no_statements(batch) THEN "return" ELSE "extract"
    /\ UNCHANGED <<calls, sched, runs, now, excel_file, extracted_data, file_existed,
                   existing_df, workbook, prior>>

(* Lines 593-596: one record per statement, in order. *)
Extract ==
    /\ pc = "extract"
    /\ extracted_data' =
          [i \in 1..Len(statements) |-> extract_data_from_pdf(statements[i], current_month)]
    /\ pc' = "write"
    /\ UNCHANGED <<calls, sched, runs, now, excel_file, statements, file_existed,
                   existing_df, workbook, prior>>

(* An exception leaves run_monthly_job and its caller: the process ends. *)
Raise ==
    /\ pc' = "idle"
    /\ sched' = "dead"
    /\ ResetLocals
    /\ UNCHANGED <<calls, runs, now, excel_file, prior>>

(* write_to_excel, lines 422-449: the data frame of the batch, and in the
   else branch the rows read from the file and the combined rows. *)
WriteToExcel ==
    /\ pc = "write"
    /\ \/ /\ to_datetime_may_raise(extracted_data)
          /\ Raise
       \/ /\ file_existed' = excel_file.exists
          /\ existing_df' = IF excel_file.exists THEN excel_file.book.statements ELSE <<>>
          /\ workbook' = Workbook(written_rows(excel_file, extracted_data),
                                to_excel_sheets(excel_file))
          /\ pc' = "to_excel"
          /\ UNCHANGED <<calls, sched, runs, now, excel_file, statements, extracted_data, prior>>

(* Lines 435 and 452: the writer opens the file, which creates or truncates
   it. *)
ToExcelOpen ==
    /\ pc = "to_excel"
    /\ excel_file' = OpenedForWriting
    /\ pc' = "to_excel_close"
    /\ UNCHANGED <<calls, sched, runs, now, locals, prior>>

(* Lines 436-437 and 452: the sheet is written and the file closed. *)
ToExcelClose ==
    /\ pc = "to_excel_close"
    /\ excel_file' = Saved(workbook)
    /\ pc' = "report"
    /\ UNCHANGED <<calls, sched, runs, now, locals, prior>>

(* ----------------------- create_monthly_report ------------------------- *)
(* The data frame without the filter of line 494. *)
month_data_unfiltered(df, month) == df

(* Line 494: the rows of the data frame whose date is the current month. *)
RECURSIVE month_data(_, _)
month_data(df, month) ==
    IF df = <<>> THEN <<>>
    ELSE IF df[1].date = month
         THEN <<df[1]>> \o month_data(Tail(df), month)
         ELSE month_data(Tail(df), month)

(* Lines 531-537: one sheet row per row of month_data, columns A to E. *)
report_rows(df) ==
    [i \in 1..Len(df) |->
        [bank |-> df[i].bank, closing_balance |-> df[i].closing_balance,
         total_credits |-> df[i].total_credits, total_debits |-> df[i].total_debits,
         net_cash_flow |-> df[i].net_cash_flow]]

(* The value of =SUM(X4:X{row-2}): the range ends one row early. *)
RECURSIVE SUM_one_row_short(_, _)
SUM_one_row_short(rows, column) ==
    IF Len(rows) <= 1 THEN 0
    ELSE LET cell == rows[1][column]
         IN  (IF column = "closing_balance"
              THEN (IF cell = NoAmount THEN 0 ELSE cell[1])
              ELSE cell) + SUM_one_row_short(Tail(rows), column)

(* The value of =SUM(X4:X{row-1}) over the written cells; an empty cell
   adds nothing. *)
RECURSIVE SUM(_, _)
SUM(rows, column) ==
    IF rows = <<>> THEN 0
    ELSE LET cell == rows[1][column]
         IN  (IF column = "closing_balance"
              THEN (IF cell = NoAmount THEN 0 ELSE cell[1])
              ELSE cell) + SUM(Tail(rows), column)

(* Lines 501-547: the report sheet of the month. *)
report_sheet(df, month) ==
    LET rows == report_rows(df)
    IN  [name |-> SheetName(month),
         rows |-> rows,
         total |-> [bank |-> "TOTAL",
                    closing_balance |-> SUM(rows, "closing_balance"),
                    total_credits |-> SUM(rows, "total_credits"),
                    total_debits |-> SUM(rows, "total_debits"),
                    net_cash_flow |-> SUM(rows, "net_cash_flow")]]

(* Lines 456-573: load the workbook, and when it has rows for the current
   month replace the month's report sheet in it. *)
CreateMonthlyReport ==
    /\ pc = "report"
    /\ LET book == excel_file.book
           selected == month_data(book.statements, current_month)
       IN  IF ~excel_file.exists \/ book.statements = <<>> \/ selected = <<>>
           THEN /\ pc' = "return"
                /\ workbook' = workbook
           ELSE /\ pc' = "save"
                /\ workbook' =
                      Workbook(book.statements,
                               { sheet \in book.reports : sheet.name # SheetName(current_month) }
                                   \cup { report_sheet(selected, current_month) })
    /\ UNCHANGED <<calls, sched, runs, now, excel_file, statements, extracted_data,
                   file_existed, existing_df, prior>>

(* Line 576: workbook.save opens the file for writing, which truncates
   it. *)
SaveOpen ==
    /\ pc = "save"
    /\ excel_file' = OpenedForWriting
    /\ pc' = "save_close"
    /\ UNCHANGED <<calls, sched, runs, now, locals, prior>>

(* Lines 576-577: the workbook is written and the file closed. *)
SaveClose ==
    /\ pc = "save_close"
    /\ excel_file' = Saved(workbook)
    /\ pc' = "return"
    /\ UNCHANGED <<calls, sched, runs, now, locals, prior>>

(* Lines 590 and 604: run_monthly_job returns to its caller. *)
Return ==
    /\ pc = "return"
    /\ pc' = "idle"
    /\ sched' = IF sched = "immediate" THEN "register" ELSE sched
    /\ ResetLocals
    /\ UNCHANGED <<calls, runs, now, excel_file, prior>>

Next ==
    \/ Launch
    \/ Register
    \/ RunPending
    \/ KeyboardInterrupt
    \/ Restart
    \/ Tick
    \/ Fetch
    \/ Extract
    \/ WriteToExcel
    \/ ToExcelOpen
    \/ ToExcelClose
    \/ CreateMonthlyReport
    \/ SaveOpen
    \/ SaveClose
    \/ Return

Spec == Init /\ [][Next]_vars

(* ------------------- identify_bank on one message ---------------------- *)
InitIdentify ==
    /\ NotStarted
    /\ pdf = NoCall
    /\ \E subject \in Subjects, sender \in Senders :
          email = [subject |-> subject, sender |-> sender,
                   bank_name |-> NULL, returned |-> FALSE]

(* Line 68: bank_name = self.identify_bank(subject, sender). *)
IdentifyBank ==
    /\ ~email.returned
    /\ email' = [email EXCEPT !.bank_name = identify_bank(email.subject, email.sender),
                              !.returned = TRUE]
    /\ UNCHANGED <<pipeline, pdf>>

NextIdentify == IdentifyBank

SpecIdentify == InitIdentify /\ [][NextIdentify]_vars

(* ------------- extract_data_from_pdf on the text of a file ------------- *)
InitExtract ==
    /\ NotStarted
    /\ email = NoCall
    /\ \E bank_name \in BankNames, line \in PeriodLines :
          pdf = [bank_name |-> bank_name, line |-> line,
                 data |-> NULL, returned |-> FALSE]

(* Line 595: data = self.extract_data_from_pdf(filename, bank), on a
   readable file named statement.pdf. *)
ExtractDataFromPdf ==
    /\ ~pdf.returned
    /\ pdf' = [pdf EXCEPT
                 !.data = extract_data_from_pdf(
                              Statement(pdf.bank_name, "statement.pdf", TRUE,
                                        found_in(pdf.bank_name, pdf.line)),
                              current_month),
                 !.returned = TRUE]
    /\ UNCHANGED <<pipeline, email>>

NextExtract == ExtractDataFromPdf

SpecExtract == InitExtract /\ [][NextExtract]_vars

(* ============================ properties =============================== *)
(* The rows of the 'Bank Statements' sheet of a file. *)
Dataset(file) == file.book.statements

(* The positions of a key in a data frame, and the last record of a batch
   with a key. *)
RowsWithKey(df, k) == { i \in 1..Len(df) : Key(df[i]) = k }
LastWithKey(data_list, k) ==
    CHOOSE i \in 1..Len(data_list) :
        /\ Key(data_list[i]) = k
        /\ \A j \in (i + 1)..Len(data_list) : Key(data_list[j]) # k

(* (date, bank) of r1 is at most (date, bank) of r2; a missing date counts
   as the greatest. *)
KeyLeq(r1, r2) ==
    \/ DateRank(r1.date) < DateRank(r2.date)
    \/ DateRank(r1.date) = DateRank(r2.date) /\ BankRank(r1.bank) <= BankRank(r2.bank)

(* C1: the persisted 'Bank Statements' dataset holds at most one row per
   (bank, date) pair, after any sequence of runs. *)
C1_UniqueKeys ==
    excel_file.closed =>
        \A i, j \in 1..Len(Dataset(excel_file)) :
            i # j => Key(Dataset(excel_file)[i]) # Key(Dataset(excel_file)[j])

(* C2: after a merge into an existing file, every (bank, date) key present
   both in the rows read from the file and in the batch has exactly one row
   in the file, and that row is made from the last record of the batch with
   that key. *)
C2_IncomingWins ==
    (pc = "report" /\ file_existed) =>
        \A k \in KeysOf(existing_df) \cap KeysOf(extracted_data) :
            \E i \in 1..Len(Dataset(excel_file)) :
                /\ RowsWithKey(Dataset(excel_file), k) = {i}
                /\ Dataset(excel_file)[i] = to_row(extracted_data[LastWithKey(extracted_data, k)])

(* C2 witness: a merge where the last record of the batch for a key differs
   from the file's row for the key and from an earlier record of the batch
   with the same key. *)
C2_Witness ==
    /\ pc = "report"
    /\ file_existed
    /\ \E k \in KeysOf(existing_df) \cap KeysOf(extracted_data) :
          LET last == LastWithKey(extracted_data, k)
          IN  /\ \E i \in RowsWithKey(existing_df, k) :
                    existing_df[i] # to_row(extracted_data[last])
              /\ \E j \in 1..(last - 1) :
                    /\ Key(extracted_data[j]) = k
                    /\ extracted_data[j] # extracted_data[last]

(* C3: merging the batch that was just merged a second time leaves the
   persisted dataset as it is after the first merge. *)
C3_Idempotent ==
    pc = "report" => written_rows(excel_file, extracted_data) = Dataset(excel_file)

(* C4: every (bank, date) key of the dataset as it was when a run started
   is a key of the dataset when the run has ended. *)
C4_KeysKept ==
    (pc \in {"return", "idle"} /\ excel_file.closed) =>
        KeysOf(Dataset(prior)) \subseteq KeysOf(Dataset(excel_file))

(* C4 witness: a run has ended that replaced the row of one key of the
   earlier dataset and left the row of another key as it was. *)
C4_Witness ==
    /\ pc = "return"
    /\ file_existed
    /\ \E i, j \in 1..Len(Dataset(prior)) :
          /\ Key(Dataset(prior)[i]) \in KeysOf(extracted_data)
          /\ \A n \in 1..Len(Dataset(excel_file)) : Dataset(excel_file)[n] # Dataset(prior)[i]
          /\ Key(Dataset(prior)[j]) \notin KeysOf(extracted_data)

(* C5: every record returned by extract_data_from_pdf has a date. *)
C5_DateNeverNull ==
    \A i \in 1..Len(extracted_data) : extracted_data[i].date # NULL

(* C6: a document whose reading fails contributes no record to the batch:
   the batch holds one record per readable document. *)
C6_UnreadableSkipped ==
    pc = "write" =>
        Len(extracted_data) = Cardinality({ i \in 1..Len(statements) : statements[i].readable })

(* C7: when the fetch returns no statements the run goes straight to its
   return and the file (dataset and reports) stays as it is until the run
   has returned. *)
C7_ZeroDocuments ==
    [][ /\ (pc = "fetch" /\ pc' # "fetch" /\ statements' = <<>>) =>
            (pc' = "return" /\ excel_file' = excel_file)
        /\ (pc = "return" /\ statements = <<>>) =>
            (pc' \in {"return", "idle"} /\ excel_file' = excel_file) ]_vars

(* C7 witness: a run over an existing file has fetched no statements and is
   at its return. *)
C7_Witness ==
    /\ pc = "return"
    /\ statements = <<>>
    /\ excel_file.exists
    /\ Dataset(excel_file) # <<>>

(* C8: at every point of a run the file is either as it was when the run
   started or holds the fully merged dataset. *)
C8_AtomicReplace ==
    job_running(pc) =>
        \/ excel_file = prior
        \/ /\ pc \notin {"fetch", "extract"}
           /\ excel_file.exists
           /\ excel_file.closed
           /\ Dataset(excel_file) = written_rows(prior, extracted_data)

C10_Sorted ==
    excel_file.closed =>
        \A i \in 1..(Len(Dataset(excel_file)) - 1) :
            KeyLeq(Dataset(excel_file)[i], Dataset(excel_file)[i + 1])

(* C10 witness: a merge of a batch that was not in (date, bank) order has
   left a dataset with two rows of one date. *)
C10_Witness ==
    /\ pc = "report"
    /\ file_existed
    /\ \E i \in 1..(Len(extracted_data) - 1) :
          ~KeyLeq(extracted_data[i], extracted_data[i + 1])
    /\ \E i \in 1..(Len(Dataset(excel_file)) - 1) :
          /\ Dataset(excel_file)[i].date = Dataset(excel_file)[i + 1].date
          /\ Dataset(excel_file)[i].bank # Dataset(excel_file)[i + 1].bank

(* A string of the form "YYYY-MM". *)
IsYearMonth(d) ==
    /\ Len(d) = 7
    /\ SubSeq(d, 5, 5) = "-"
    /\ \A i \in {1, 2, 3, 4, 6, 7} :
          SubSeq(d, i, i) \in {"0", "1", "2", "3", "4", "5", "6", "7", "8", "9"}

(* C11: the date of every record returned by extraction that has a date
   (from the statement text, the filename or the current month) is of the
   form "YYYY-MM". *)
C11_DateIsYearMonth ==
    \A i \in 1..Len(extracted_data) :
        extracted_data[i].date # NULL => IsYearMonth(extracted_data[i].date)

(* The banks in the order the claim gives, and the identifiers of a bank. *)
RegistrationOrder == <<"chase", "bank of america", "wells fargo", "citi", "capital one">>

IdentifiersOf(name) ==
    LET i == CHOOSE i \in 1..Len(banks) : banks[i].bank = name
    IN  { banks[i].identifiers[n] : n \in 1..Len(banks[i].identifiers) }

(* The positions in RegistrationOrder of the banks one of whose
   identifiers occurs in the lower-cased subject or sender. *)
Matching(subject, sender) ==
    { i \in 1..Len(RegistrationOrder) :
        \E id \in IdentifiersOf(RegistrationOrder[i]) :
            Contains(lower(subject), id) \/ Contains(lower(sender), id) }

(* C12: identify_bank returns the first bank in registration order one of
   whose identifiers occurs in the lower-cased subject or sender; with no
   such bank it returns "unknown bank" when the lower-cased subject
   contains "statement", and None otherwise. *)
C12_IdentifyBank ==
    email.returned =>
        LET matching == Matching(email.subject, email.sender)
        IN  IF matching # {}
            THEN \E i \in matching :
                    /\ \A j \in matching : i <= j
                    /\ email.bank_name = RegistrationOrder[i]
            ELSE IF Contains(lower(email.subject), "statement")
                 THEN email.bank_name = "unknown bank"
                 ELSE email.bank_name = NULL

(* C12 witness: identify_bank has returned for a message that two banks
   match, the earlier by the subject and the later by the sender. *)
C12_Witness ==
    /\ email.returned
    /\ Cardinality(Matching(email.subject, email.sender)) = 2
    /\ Contains(lower(email.subject), "chase")
    /\ Contains(lower(email.sender), "@citi.com")
    /\ email.bank_name = "chase"

(* C13: when the report step finds no row of the dataset dated the current
   year-month it returns without saving: the file, its report sheets and
   dataset included, stays as it is. *)
C13_NoDataNoReport ==
    [][ (/\ pc = "report"
         /\ pc' # "report"
         /\ \A i \in 1..Len(Dataset(excel_file)) :
               Dataset(excel_file)[i].date # current_month)
        => (pc' = "return" /\ excel_file' = excel_file) ]_vars

(* C13 witness: a run that merged a batch is at its return, the dataset has
   no row for the current year-month and the file has no report sheet. *)
C13_Witness ==
    /\ pc = "return"
    /\ extracted_data # <<>>
    /\ excel_file.closed
    /\ Dataset(excel_file) # <<>>
    /\ \A i \in 1..Len(Dataset(excel_file)) : Dataset(excel_file)[i].date # current_month
    /\ excel_file.book.reports = {}

(* The positions of the rows of a data frame dated month, the k-th of a set
   of positions, and the sum of a column over a set of positions. *)
RowsOfMonth(df, month) == { i \in 1..Len(df) : df[i].date = month }
Nth(positions, k) ==
    CHOOSE r \in positions : Cardinality({ x \in positions : x < r }) = k - 1
RECURSIVE ColumnSum(_, _, _)
ColumnSum(df, positions, column) ==
    IF positions = {} THEN 0
    ELSE LET r == CHOOSE r \in positions : TRUE
         IN  df[r][column] + ColumnSum(df, positions \ {r}, column)

(* C14: every report sheet of the file is the sheet of a year-month for
   which the dataset has rows; its rows are those rows of the dataset, in
   dataset order, and its last row is labelled TOTAL and holds the sums of
   total_credits, total_debits and net_cash_flow over them. *)
C14_ReportTotals ==
    excel_file.closed =>
        \A sheet \in excel_file.book.reports :
            \E n \in 1..Len(Clock) :
                LET df == Dataset(excel_file)
                    positions == RowsOfMonth(df, Clock[n])
                IN  /\ sheet.name = SheetName(Clock[n])
                    /\ positions # {}
                    /\ Len(sheet.rows) = Cardinality(positions)
                    /\ \A k \in 1..Len(sheet.rows) :
                          /\ sheet.rows[k].bank = df[Nth(positions, k)].bank
                          /\ sheet.rows[k].closing_balance = df[Nth(positions, k)].closing_balance
                          /\ sheet.rows[k].total_credits = df[Nth(positions, k)].total_credits
                          /\ sheet.rows[k].total_debits = df[Nth(positions, k)].total_debits
                          /\ sheet.rows[k].net_cash_flow = df[Nth(positions, k)].net_cash_flow
                    /\ sheet.total.bank = "TOTAL"
                    /\ sheet.total.total_credits = ColumnSum(df, positions, "total_credits")
                    /\ sheet.total.total_debits = ColumnSum(df, positions, "total_debits")
                    /\ sheet.total.net_cash_flow = ColumnSum(df, positions, "net_cash_flow")

(* C14 witness: the file holds a report of two rows, credits 100 and 50 and
   debits 20 and 10, with totals 150, 30 and 120, next to rows of another
   month. *)
C14_Witness ==
    /\ excel_file.closed
    /\ \E sheet \in excel_file.book.reports :
          /\ Len(sheet.rows) = 2
          /\ Len(Dataset(excel_file)) > 2
          /\ sheet.rows[1].total_credits = 100 /\ sheet.rows[1].total_debits = 20
          /\ sheet.rows[2].total_credits = 50 /\ sheet.rows[2].total_debits = 10
          /\ sheet.total.total_credits = 150
          /\ sheet.total.total_debits = 30
          /\ sheet.total.net_cash_flow = 120

(* C16: a closed workbook holds at most one report sheet, and a run whose
   fetch returns no statements goes to its return with the sheets of the
   workbook as they were. *)
C16_OneReportSheet ==
    /\ [](excel_file.closed => Cardinality(excel_file.book.reports) <= 1)
    /\ [][ (pc = "fetch" /\ pc' # "fetch" /\ statements' = <<>>) =>
              (pc' = "return" /\ excel_file'.book = excel_file.book) ]_vars

(* C16 witness: a run has ended that started with the report sheet of March
   in the workbook and left the report sheet of April as the only one. *)
C16_Witness ==
    /\ pc = "return"
    /\ excel_file.closed
    /\ \E sheet \in prior.book.reports : sheet.name = "Report_Mar_2025"
    /\ \E sheet \in excel_file.book.reports : sheet.name = "Report_Apr_2025"
    /\ Cardinality(excel_file.book.reports) = 1

(* C15: for every rule set, a text with a period label followed by two
   dates joined by "to", "through" or "-" gives statement_period
   "date1 - date2" and the date "YYYY-MM" of the second date; a text with
   one date after the label gives the date "YYYY-MM" of that date. *)
C15_PeriodExtracted ==
    pdf.returned =>
        LET dates == pdf.line.dates
        IN  /\ Len(dates) = 2 =>
                /\ pdf.data.statement_period = DateText(dates[1]) \o " - " \o DateText(dates[2])
                /\ pdf.data.date = dates[2].yyyy \o "-" \o dates[2].mm
            /\ Len(dates) = 1 =>
                pdf.data.date = dates[1].yyyy \o "-" \o dates[1].mm

====
